---- MODULE Spec2Model ----
(***************************************************************************)
(* The tree selection service of the tree view                             *)
(* (packages/core/src/browser/tree/tree-selection.ts): the list of         *)
(* selected nodes, the selected flag of every node, and the                *)
(* onSelectionChanged events each call emits.                              *)
(***************************************************************************)
EXTENDS Integers, Sequences, FiniteSets, TLC

\* Number of selectable nodes (objects with a `selected` property).
NumSelectable == 3

SelectableNames == <<"A", "B", "X", "C", "D", "E">>

\* Nodes for which SelectableTreeNode.is holds.
SelectableNodes == {SelectableNames[i] : i \in 1..NumSelectable}

\* A TreeNode without a `selected` property.
PlainNodes == {"root"}

AllNodes == SelectableNodes \cup PlainNodes

\* The JavaScript value undefined.
Undefined == "undefined"

----------------------------------------------------------------------------
\* The node graph the tree model works on: a fixed shape,
\*   root [A [grp [X], B], C]
\* where root and grp are not selectable, root, A and X are expandable, grp is a
\* composite node without an `expanded` property, X has an empty children list,
\* and B and C have no children property.

\* Composite nodes that are not selectable, besides the root.
GroupNodes == {"grp"}

\* Every node object of the graph.
GraphNodes == AllNodes \cup GroupNodes

\* node.children of the nodes that have a `children` property.
AllChildren(n) ==
    CASE n = "root" -> <<"A", "C", "D">>
      [] n = "A"    -> <<"grp", "B", "E">>
      [] n = "grp"  -> <<"X">>
      [] OTHER      -> <<>>

\* node.children of every node object (empty for a node without children).
childrenOf ==
    [n \in GraphNodes |-> SelectSeq(AllChildren(n), LAMBDA k : k \in GraphNodes)]

children(n) == childrenOf[n]

\* CompositeTreeNode.is: the node has a `children` property.
CompositeIs(n) == n \in {"root", "A", "grp", "X"}

\* ExpandableTreeNode.is: a composite node with an `expanded` property.
ExpandableIs(n) == CompositeIs(n) /\ n \in {"root", "A", "X"}

ExpandableNodes == {n \in GraphNodes : ExpandableIs(n)}

\* node.parent of every node object: the node whose children list holds it.
parentOf ==
    [n \in GraphNodes |->
        IF \E p \in GraphNodes : \E i \in 1..Len(children(p)) : children(p)[i] = n
        THEN CHOOSE p \in GraphNodes : \E i \in 1..Len(children(p)) : children(p)[i] = n
        ELSE Undefined]

parent(n) == parentOf[n]

\* The nodes in depth-first pre-order from n: the order the widget renders them in.
RECURSIVE PreOrderAll(_)
PreOrderAll(seq) ==
    IF seq = <<>> THEN <<>>
    ELSE <<Head(seq)>> \o PreOrderAll(children(Head(seq))) \o PreOrderAll(Tail(seq))

preOrderOf == [n \in GraphNodes |-> PreOrderAll(<<n>>)]

PreOrder(n) == preOrderOf[n]

\* n and its descendants.
Subtree(n) == {PreOrder(n)[i] : i \in 1..Len(PreOrder(n))}

\* StructuredSelection.SelectionType, plus undefined for a call without props.
SelectionTypes == {"SINGLE", "MULTI_INDIVIDUAL", "MULTI_RANGE", Undefined}

VARIABLES
    treeNodes,      \* the nodes the tree knows (what tree.validateNode accepts)
    selectedNodes,  \* TreeSelectionServiceImpl._selectedNodes
    selected,       \* the `selected` flag of every selectable node
    fired,          \* payloads of the onSelectionChanged events of the last call
    recency,        \* history: selectable nodes by their last selectNode call, latest first
    call,           \* history: the last call, its arguments and the state it started from
    expanded,       \* the `expanded` flag of every expandable node
    root,           \* Tree.root
    navigation,     \* the nodes given to TreeNavigationService.push, oldest first
    opened,         \* payloads of the onOpenNode events of the last call
    result,         \* what the last expandNode / collapseNode call returned
    hidden,         \* the nodes with `visible: false`
    multiSelect,    \* TreeProps.multiSelect of the widget: "true", "false" or undefined
    isOSX,          \* the platform constant isOSX of common/os
    pre,            \* history: expansion, root and navigation when the last call started
    nodeParent,     \* the `parent` property of every node object of the tree
    nodeChildren,   \* the `children` property of every node object (empty if it has none)
    stored,         \* the object storeState returned last
    reveal          \* FileNavigatorModel.revealFile: the call in progress and its result

selectionVars == <<treeNodes, selectedNodes, selected, fired, recency, call>>

modelVars == <<expanded, root, navigation, opened, result, hidden, multiSelect, isOSX, pre>>

storeVars == <<nodeParent, nodeChildren, stored>>

vars == <<treeNodes, selectedNodes, selected, fired, recency, call,
          expanded, root, navigation, opened, result, hidden, multiSelect, isOSX, pre,
          nodeParent, nodeChildren, stored, reveal>>

\* No call of revealFile: nothing on the stack of pending calls, no refresh of a
\* node under way, nothing returned.
NoReveal ==
    [status |-> "idle", target |-> Undefined, stack |-> <<>>, refreshing |-> {},
     value |-> Undefined]

\* No state object: storeState has not been called.
NoState ==
    [root |-> Undefined, objs |-> {}, from |-> Undefined,
     live |-> [parent |-> [n \in GraphNodes |-> Undefined],
               children |-> [n \in GraphNodes |-> <<>>],
               selected |-> [n \in SelectableNodes |-> FALSE],
               expanded |-> [n \in ExpandableNodes |-> FALSE]]]

----------------------------------------------------------------------------
\* Array helpers, as JavaScript defines them (indices are 0-based).

\* Array.prototype.indexOf: the first index of n, or -1.
indexOf(s, n) ==
    IF \E i \in 1..Len(s) : s[i] = n
    THEN (CHOOSE i \in 1..Len(s) : s[i] = n /\ \A j \in 1..(i - 1) : s[j] # n) - 1
    ELSE -1

\* Array.prototype.unshift(n): n is put at the start.
unshift_push(s, n) == Append(s, n)

unshift(s, n) == <<n>> \o s

\* Array.prototype.splice(index, 1): the element at index is removed.
splice_next(s, index) ==
    [i \in 1..(Len(s) - 1) |-> IF i <= index + 1 THEN s[i] ELSE s[i + 1]]

splice(s, index) ==
    [i \in 1..(Len(s) - 1) |-> IF i <= index THEN s[i] ELSE s[i + 1]]

\* The elements of a sequence.
Range(s) == {s[i] : i \in 1..Len(s)}

----------------------------------------------------------------------------
\* StructuredSelection.SelectionType.isMulti
isMulti_rangeOnly(type) == type = "MULTI_RANGE"

isMulti(type) == type = "MULTI_INDIVIDUAL" \/ type = "MULTI_RANGE"

\* SelectableTreeNode.is: the node is defined and has a `selected` property.
SelectableIs(node) == node # Undefined /\ node \in SelectableNodes

\* Tree.validateNode: the node of the tree with the id of the given node, if any.
validateNode(nodes, node) == IF node \in nodes THEN node ELSE Undefined

----------------------------------------------------------------------------
\* The service's state while a call runs: st.sel is _selectedNodes, st.flags the
\* selected flags, st.fired the events emitted so far by the call.

\* this.onSelectionChangedEmitter.fire(this._selectedNodes.slice())
fireSelectionChanged_silent(st) == st

fireSelectionChanged(st) == [st EXCEPT !.fired = Append(@, st.sel)]

\* _selectedNodes.forEach(n => n.selected = false); _selectedNodes.length = 0
clearSelections_keepFlags(st) == [st EXCEPT !.sel = <<>>]

clearSelections(st) ==
    [st EXCEPT !.flags = [n \in DOMAIN @ |-> IF n \in Range(st.sel) THEN FALSE ELSE @[n]],
               !.sel = <<>>]

\* node.selected = true; this._selectedNodes.unshift(node)
selectFirst(st, node) ==
    [st EXCEPT !.flags[node] = TRUE, !.sel = unshift(@, node)]

doSelectNode_alwaysReplace(st, node, type) ==
    IF Len(st.sel) = 0
    THEN fireSelectionChanged(selectFirst(st, node))
    ELSE LET multi == isMulti(type)
             index == indexOf(st.sel, node)
         IN  IF multi
             THEN IF index = -1
                  THEN fireSelectionChanged(selectFirst(st, node))
                  ELSE fireSelectionChanged(
                           selectFirst([st EXCEPT !.sel = splice(@, index)], node))
             ELSE fireSelectionChanged(selectFirst(clearSelections(st), node))

doSelectNode(st, node, type) ==
    IF Len(st.sel) = 0
    THEN fireSelectionChanged(selectFirst(st, node))
    ELSE LET multi == isMulti(type)
             index == indexOf(st.sel, node)
         IN  IF multi
             THEN IF index = -1
                  THEN fireSelectionChanged(selectFirst(st, node))
                  ELSE IF Len(st.sel) # 1
                       THEN fireSelectionChanged(
                                selectFirst([st EXCEPT !.sel = splice(@, index)], node))
                       ELSE st
             ELSE IF Len(st.sel) # 1 \/ index = -1
                  THEN fireSelectionChanged(selectFirst(clearSelections(st), node))
                  ELSE st

selectNode_noValidation(st, nodes, raw, type) ==
    IF SelectableIs(raw) THEN doSelectNode(st, raw, type) ELSE st

selectNode(st, nodes, raw, type) ==
    LET node == validateNode(nodes, raw)
    IN  IF SelectableIs(node) THEN doSelectNode(st, node, type) ELSE st

doUnselectNode_all(st, node) ==
    fireSelectionChanged(clearSelections(st))

doUnselectNode_keepFlags(st, node) ==
    IF node = Undefined
    THEN fireSelectionChanged([st EXCEPT !.sel = <<>>])
    ELSE LET index == indexOf(st.sel, node)
         IN  IF index # -1
             THEN fireSelectionChanged(
                      [st EXCEPT !.flags[node] = FALSE, !.sel = splice(@, index)])
             ELSE st

doUnselectNode(st, node) ==
    IF node = Undefined
    THEN fireSelectionChanged(
             [st EXCEPT !.flags = [n \in DOMAIN @ |->
                                      IF n \in Range(st.sel) THEN FALSE ELSE @[n]],
                        !.sel = <<>>])
    ELSE LET index == indexOf(st.sel, node)
         IN  IF index # -1
             THEN fireSelectionChanged(
                      [st EXCEPT !.flags[node] = FALSE, !.sel = splice(@, index)])
             ELSE st

unselectNode_noValidation(st, nodes, raw) ==
    IF raw = Undefined
    THEN doUnselectNode(st, Undefined)
    ELSE IF SelectableIs(raw) THEN doUnselectNode(st, raw) ELSE st

unselectNode(st, nodes, raw) ==
    IF raw = Undefined
    THEN doUnselectNode(st, Undefined)
    ELSE LET node == validateNode(nodes, raw)
         IN  IF SelectableIs(node) THEN doUnselectNode(st, node) ELSE st

----------------------------------------------------------------------------
\* The state a call starts from: no event emitted yet.
Current == [sel |-> selectedNodes, flags |-> selected, fired |-> <<>>]

\* The history of the last call.
CallRecord(op, raw, type) ==
    [op |-> op, node |-> raw, type |-> type,
     before |-> selectedNodes, flags |-> selected]

\* The nodes by their last selectNode call: node comes first.
Touch(s, node) == <<node>> \o SelectSeq(s, LAMBDA m : m # node)

Init ==
    /\ treeNodes = AllNodes
    /\ selectedNodes = <<>>
    /\ selected = [n \in SelectableNodes |-> FALSE]
    /\ fired = <<>>
    /\ recency = <<>>
    /\ call = [op |-> "init", node |-> Undefined, type |-> Undefined,
               before |-> <<>>,
               flags |-> [n \in SelectableNodes |-> FALSE]]
    /\ expanded = [n \in ExpandableNodes |-> FALSE]
    /\ root = "root"
    /\ navigation = <<>>
    /\ opened = <<>>
    /\ result = FALSE
    /\ hidden = {}
    /\ multiSelect = "false"
    /\ isOSX = FALSE
    /\ pre = [exp |-> [n \in ExpandableNodes |-> FALSE], root |-> "root",
              nav |-> <<>>, nodes |-> AllNodes]
    /\ nodeParent = parentOf
    /\ nodeChildren = childrenOf
    /\ stored = NoState
    /\ reveal = NoReveal

\* TreeSelectionService.selectNode(raw, props)
SelectNode(raw, type) ==
    LET st == selectNode(Current, treeNodes, raw, type)
    IN  /\ selectedNodes' = st.sel
        /\ selected' = st.flags
        /\ fired' = st.fired
        /\ recency' = IF SelectableIs(validateNode(treeNodes, raw))
                      THEN Touch(recency, raw)
                      ELSE recency
        /\ call' = CallRecord("selectNode", raw, type)
        /\ UNCHANGED treeNodes
        /\ UNCHANGED <<modelVars, storeVars, reveal>>

\* TreeSelectionService.unselectNode(raw)
UnselectNode(raw) ==
    LET st == unselectNode(Current, treeNodes, raw)
    IN  /\ selectedNodes' = st.sel
        /\ selected' = st.flags
        /\ fired' = st.fired
        /\ call' = CallRecord("unselectNode", raw, Undefined)
        /\ UNCHANGED <<treeNodes, recency>>
        /\ UNCHANGED <<modelVars, storeVars, reveal>>

\* The tree drops a node (its parent was refreshed or the root was replaced).
RemoveNode(node) ==
    /\ node \in treeNodes
    /\ treeNodes' = treeNodes \ {node}
    /\ fired' = <<>>
    /\ call' = CallRecord("removeNode", Undefined, Undefined)
    /\ UNCHANGED <<selectedNodes, selected, recency>>
    /\ UNCHANGED <<modelVars, storeVars, reveal>>

\* The tree adds a node (its parent was refreshed or the root was replaced).
AddNode(node) ==
    /\ node \notin treeNodes
    /\ treeNodes' = treeNodes \cup {node}
    /\ fired' = <<>>
    /\ call' = CallRecord("addNode", Undefined, Undefined)
    /\ UNCHANGED <<selectedNodes, selected, recency>>
    /\ UNCHANGED <<modelVars, storeVars, reveal>>

Next ==
    \/ \E raw \in AllNodes \cup {Undefined}, type \in SelectionTypes : SelectNode(raw, type)
    \/ \E raw \in AllNodes \cup {Undefined} : UnselectNode(raw)
    \/ \E node \in SelectableNodes : RemoveNode(node)
    \/ \E node \in SelectableNodes : AddNode(node)

Spec == Init /\ [][Next]_vars

----------------------------------------------------------------------------
\* The tree model (tree-model.ts) and the iterators (tree-iterator.ts). A call
\* works on a record m: m.sel, m.flags, m.fired as above, m.exp the expanded flags,
\* m.root the root, m.nodes the nodes the tree knows, m.nav the navigation
\* history, m.opened the onOpenNode events and m.result the returned boolean.

\* TreeNode.isVisible: the node is defined and not marked `visible: false`.
isVisible(n) == n # Undefined /\ n \notin hidden

\* SelectableTreeNode.isVisible
SelectableIsVisible(n) == SelectableIs(n) /\ isVisible(n)

\* SelectableTreeNode.getVisibleParent
RECURSIVE getVisibleParent(_)
getVisibleParent(n) ==
    IF n = Undefined THEN Undefined
    ELSE IF SelectableIsVisible(parent(n)) THEN parent(n)
         ELSE getVisibleParent(parent(n))

\* CompositeTreeNode.isAncestor: p is the parent of c or of one of its ancestors.
RECURSIVE isAncestor(_, _)
isAncestor(p, c) ==
    IF c = Undefined THEN FALSE
    ELSE IF parent(c) = p THEN TRUE ELSE isAncestor(p, parent(c))

\* TreeNode.getNextSibling / getPrevSibling: the neighbour in parent.children.
getNextSibling(n) ==
    IF n = Undefined \/ parent(n) = Undefined THEN Undefined
    ELSE LET cs == children(parent(n))
             index == indexOf(cs, n)
         IN  IF index + 2 <= Len(cs) THEN cs[index + 2] ELSE Undefined

getPrevSibling(n) ==
    IF n = Undefined \/ parent(n) = Undefined THEN Undefined
    ELSE LET cs == children(parent(n))
             index == indexOf(cs, n)
         IN  IF index >= 1 THEN cs[index] ELSE Undefined

\* ExpandableTreeNode.isExpanded / isCollapsed
isExpanded(m, n) == ExpandableIs(n) /\ m.exp[n]

isCollapsed(m, n) == ExpandableIs(n) /\ ~m.exp[n]

hasChildren_unpruned(m, n, prune) ==
    /\ n # Undefined
    /\ CompositeIs(n)
    /\ Len(children(n)) # 0

\* AbstractTreeNodeIterator.hasChildren, with options.pruneCollapsed = prune
hasChildren(m, n, prune) ==
    /\ n # Undefined
    /\ CompositeIs(n)
    /\ Len(children(n)) # 0
    /\ (prune => isExpanded(m, n))

\* ForwardTreeNodeIterator.findFirstChild
findFirstChild(m, n, prune) ==
    IF hasChildren(m, n, prune) THEN children(n)[1] ELSE Undefined

\* ForwardTreeNodeIterator.findNextSibling
RECURSIVE findNextSibling(_)
findNextSibling(n) ==
    IF n = Undefined THEN Undefined
    ELSE IF getNextSibling(n) # Undefined THEN getNextSibling(n)
         ELSE findNextSibling(parent(n))

\* ForwardTreeNodeIterator.doNext
ForwardDoNext(m, n, prune) ==
    IF findFirstChild(m, n, prune) # Undefined
    THEN findFirstChild(m, n, prune)
    ELSE findNextSibling(n)

\* BackwardTreeNodeIterator.findLastChild
RECURSIVE findLastChild(_, _, _)
findLastChild(m, n, prune) ==
    IF ~hasChildren(m, n, prune) THEN n
    ELSE findLastChild(m, children(n)[Len(children(n))], prune)

\* BackwardTreeNodeIterator.doNext
BackwardDoNext(m, n, prune) ==
    LET lastChild == findLastChild(m, getPrevSibling(n), prune)
    IN  IF lastChild # Undefined THEN lastChild ELSE parent(n)

\* TreeModelImpl.selectNode
modelSelectNode(m, node, type) == selectNode(m, m.nodes, node, type)

\* TreeModelImpl.selectNextVisibleNode over an iterator that stands at n: next()
\* is called until it is done or returns a visible selectable node, which is
\* then selected. forward tells the ForwardTreeNodeIterator from the backward one.
RECURSIVE nextVisible(_, _, _)
nextVisible(m, n, forward) ==
    IF n = Undefined THEN Undefined
    ELSE LET value == IF forward THEN ForwardDoNext(m, n, TRUE)
                      ELSE BackwardDoNext(m, n, TRUE)
         IN  IF SelectableIsVisible(value) THEN value
             ELSE nextVisible(m, value, forward)

selectNextVisibleNode(m, n, forward) ==
    LET node == nextVisible(m, n, forward)
    IN  IF SelectableIsVisible(node) THEN modelSelectNode(m, node, Undefined) ELSE m

\* StructuredSelection.firstItem: selection[0]
firstItem(sel) == IF Len(sel) = 0 THEN Undefined ELSE sel[1]

\* TreeModelImpl.selectNextNode / selectPrevNode
selectNextNode(m) == selectNextVisibleNode(m, firstItem(m.sel), TRUE)

selectPrevNode(m) == selectNextVisibleNode(m, firstItem(m.sel), FALSE)

\* TreeModelImpl.selectParent
selectParent_anyCount(m) ==
    LET p == getVisibleParent(firstItem(m.sel))
    IN  IF p # Undefined THEN modelSelectNode(m, p, Undefined) ELSE m

selectParent(m) ==
    IF Len(m.sel) = 1
    THEN LET p == getVisibleParent(firstItem(m.sel))
         IN  IF p # Undefined THEN modelSelectNode(m, p, Undefined) ELSE m
    ELSE m

\* The listener the tree model puts on onExpansionChanged: when a node collapses
\* above a selected node, the collapsed node is selected if it can be.
onExpansionChanged_ignore(m, node) == m

onExpansionChanged(m, node) ==
    IF ~m.exp[node] /\ (\E s \in Range(m.sel) : isAncestor(node, s))
    THEN IF SelectableIsVisible(node) THEN modelSelectNode(m, node, Undefined) ELSE m
    ELSE m

\* TreeExpansionService.expandNode / collapseNode / toggleNodeExpansion
expansionExpandNode(m, raw) ==
    LET node == validateNode(m.nodes, raw)
    IN  IF isCollapsed(m, node)
        THEN onExpansionChanged([m EXCEPT !.exp[node] = TRUE, !.result = TRUE], node)
        ELSE [m EXCEPT !.result = FALSE]

expansionCollapseNode(m, raw) ==
    LET node == validateNode(m.nodes, raw)
    IN  IF isExpanded(m, node)
        THEN onExpansionChanged([m EXCEPT !.exp[node] = FALSE, !.result = TRUE], node)
        ELSE [m EXCEPT !.result = FALSE]

expansionToggleNodeExpansion(m, node) ==
    IF m.exp[node] THEN expansionCollapseNode(m, node) ELSE expansionExpandNode(m, node)

\* for (const node of raw ? [raw] : this.selectedNodes) if (ExpandableTreeNode.is(node))
\* the first such node, or undefined.
firstExpandable_last(m, raw) ==
    LET nodes == IF raw # Undefined THEN <<raw>> ELSE m.sel
        found == {i \in 1..Len(nodes) : ExpandableIs(nodes[i])}
    IN  IF found = {} THEN Undefined
        ELSE nodes[CHOOSE i \in found : \A j \in found : j <= i]

firstExpandable(m, raw) ==
    LET nodes == IF raw # Undefined THEN <<raw>> ELSE m.sel
        found == {i \in 1..Len(nodes) : ExpandableIs(nodes[i])}
    IN  IF found = {} THEN Undefined
        ELSE nodes[CHOOSE i \in found : \A j \in found : i <= j]

\* TreeModelImpl.expandNode / collapseNode / toggleNodeExpansion
expandNode(m, raw) ==
    LET node == firstExpandable(m, raw)
    IN  IF node # Undefined THEN expansionExpandNode(m, node)
        ELSE [m EXCEPT !.result = FALSE]

collapseNode(m, raw) ==
    LET node == firstExpandable(m, raw)
    IN  IF node # Undefined THEN expansionCollapseNode(m, node)
        ELSE [m EXCEPT !.result = FALSE]

toggleNodeExpansion(m, raw) ==
    LET node == firstExpandable(m, raw)
        done == IF node # Undefined THEN expansionToggleNodeExpansion(m, node) ELSE m
    IN  [done EXCEPT !.result = FALSE]

\* TreeModelImpl.doOpenNode
doOpenNode(m, node) ==
    IF ExpandableIs(node) THEN toggleNodeExpansion(m, node) ELSE m

\* TreeModelImpl.openNode
openNode_noToggle(m, raw) ==
    LET node == IF raw # Undefined THEN raw ELSE firstItem(m.sel)
    IN  IF node # Undefined THEN [m EXCEPT !.opened = Append(@, node)] ELSE m

openNode(m, raw) ==
    LET node == IF raw # Undefined THEN raw ELSE firstItem(m.sel)
    IN  IF node # Undefined
        THEN [doOpenNode(m, node) EXCEPT !.opened = Append(@, node)]
        ELSE m

\* Tree.root = node: the tree knows the new root and its descendants.
setRoot(m, node) == [m EXCEPT !.root = node, !.nodes = Subtree(node)]

\* TreeModelImpl.doNavigate
doNavigate_noSelect(m, node) ==
    LET rooted == setRoot(m, node)
    IN  IF ExpandableIs(node) THEN expandNode(rooted, node) ELSE rooted

doNavigate(m, node) ==
    LET rooted == setRoot(m, node)
        grown  == IF ExpandableIs(node) THEN expandNode(rooted, node) ELSE rooted
    IN  IF SelectableIs(node) THEN modelSelectNode(grown, node, Undefined) ELSE grown

\* TreeModelImpl.navigateTo
navigateTo(m, node) ==
    IF node # Undefined
    THEN [doNavigate([m EXCEPT !.nav = Append(@, node)], node) EXCEPT !.result = FALSE]
    ELSE m

----------------------------------------------------------------------------
\* The tree model as a state machine: one action per method of TreeModelImpl.

\* Longest navigation history followed.
MaxHistory == 1

\* The nodes navigateTo is called with: the root, which is expandable and not
\* selectable, and a selectable expandable node deep in the tree.
NavTargets == {"root", "X"}

\* What expandNode, collapseNode and toggleNodeExpansion are called with: no
\* node, an expandable node, or a composite node that is not expandable.
ExpansionInputs == ExpandableNodes \cup GroupNodes \cup {Undefined}

\* What openNode is called with: the same, or a node without children.
OpenInputs == ExpansionInputs \cup {"B"}

\* What the tree model's unselectNode is called with: no node, or a node.
UnselectInputs == {"A", Undefined}

\* The nodes that may carry `visible: false`.
HideableNodes == {"B"}

\* The state a call of the tree model starts from.
ModelCurrent ==
    [sel |-> selectedNodes, flags |-> selected, fired |-> <<>>,
     exp |-> expanded, root |-> root, nodes |-> treeNodes, nav |-> navigation,
     opened |-> <<>>, result |-> FALSE]

\* The state a call of the tree model ends in, and the history of the call.
ModelStep(op, raw, type, m) ==
    /\ selectedNodes' = m.sel
    /\ selected' = m.flags
    /\ fired' = m.fired
    /\ expanded' = m.exp
    /\ root' = m.root
    /\ treeNodes' = m.nodes
    /\ navigation' = m.nav
    /\ opened' = m.opened
    /\ result' = m.result
    /\ call' = CallRecord(op, raw, type)
    /\ pre' = [exp |-> expanded, root |-> root, nav |-> navigation, nodes |-> treeNodes]
    /\ UNCHANGED <<recency, hidden, multiSelect, isOSX, storeVars, reveal>>

InitModel ==
    /\ treeNodes = Subtree("root")
    /\ selectedNodes = <<>>
    /\ selected = [n \in SelectableNodes |-> FALSE]
    /\ fired = <<>>
    /\ recency = <<>>
    /\ call = [op |-> "init", node |-> Undefined, type |-> Undefined,
               before |-> <<>>,
               flags |-> [n \in SelectableNodes |-> FALSE]]
    /\ expanded = [n \in ExpandableNodes |-> FALSE]
    /\ root = "root"
    /\ navigation = <<>>
    /\ opened = <<>>
    /\ result = FALSE
    /\ hidden \in SUBSET HideableNodes
    /\ multiSelect = "false"
    /\ isOSX = FALSE
    /\ pre = [exp |-> [n \in ExpandableNodes |-> FALSE], root |-> "root",
              nav |-> <<>>, nodes |-> Subtree("root")]
    /\ nodeParent = parentOf
    /\ nodeChildren = childrenOf
    /\ stored = NoState
    /\ reveal = NoReveal

ModelSelectNode(raw, type) ==
    ModelStep("selectNode", raw, type, modelSelectNode(ModelCurrent, raw, type))

ModelUnselectNode(raw) ==
    ModelStep("unselectNode", raw, Undefined, unselectNode(ModelCurrent, treeNodes, raw))

SelectNextNode ==
    ModelStep("selectNextNode", Undefined, Undefined, selectNextNode(ModelCurrent))

SelectPrevNode ==
    ModelStep("selectPrevNode", Undefined, Undefined, selectPrevNode(ModelCurrent))

SelectParent ==
    ModelStep("selectParent", Undefined, Undefined, selectParent(ModelCurrent))

ExpandNode(raw) ==
    ModelStep("expandNode", raw, Undefined, expandNode(ModelCurrent, raw))

CollapseNode(raw) ==
    ModelStep("collapseNode", raw, Undefined, collapseNode(ModelCurrent, raw))

ToggleNodeExpansion(raw) ==
    ModelStep("toggleNodeExpansion", raw, Undefined, toggleNodeExpansion(ModelCurrent, raw))

OpenNode(raw) ==
    ModelStep("openNode", raw, Undefined, openNode(ModelCurrent, raw))

NavigateTo(node) ==
    /\ Len(navigation) < MaxHistory
    /\ ModelStep("navigateTo", node, Undefined, navigateTo(ModelCurrent, node))

NextModel ==
    \/ \E raw \in SelectableNodes, type \in {"SINGLE", "MULTI_INDIVIDUAL"} :
           ModelSelectNode(raw, type)
    \/ \E raw \in UnselectInputs : ModelUnselectNode(raw)
    \/ SelectNextNode
    \/ SelectPrevNode
    \/ SelectParent
    \/ \E raw \in ExpansionInputs : ExpandNode(raw)
    \/ \E raw \in ExpansionInputs : CollapseNode(raw)
    \/ \E raw \in ExpansionInputs : ToggleNodeExpansion(raw)
    \/ \E raw \in OpenInputs : OpenNode(raw)
    \/ \E node \in NavTargets \cup {Undefined} : NavigateTo(node)

ModelSpec == InitModel /\ [][NextModel]_vars

----------------------------------------------------------------------------
\* Storing and restoring the widget's state (TreeWidget.storeState and
\* restoreState). A stored object is the copy of a node: its id, its `parent`,
\* `selected` and `expanded` properties; its children are the copies of the
\* node's children. The decorations of the state are left out.

\* Object.assign({}, node): the node's own properties.
copyOf_collapsed(node) ==
    [id |-> node,
     parent |-> nodeParent[node],
     children |-> nodeChildren[node],
     selected |-> SelectableIs(node) /\ selected[node],
     expanded |-> FALSE]

copyOf(node) ==
    [id |-> node,
     parent |-> nodeParent[node],
     children |-> nodeChildren[node],
     selected |-> SelectableIs(node) /\ selected[node],
     expanded |-> ExpandableIs(node) /\ expanded[node]]

\* The head of deflateForStorage: the copy, with a parent that is set deleted.
deflateCopy_keepParent(node) == copyOf(node)

deflateCopy(node) ==
    LET copy == copyOf(node)
    IN  IF copy.parent # Undefined THEN [copy EXCEPT !.parent = Undefined] ELSE copy

\* TreeWidget.deflateForStorage: the copies of the node and of its descendants.
RECURSIVE deflateForStorage(_)
deflateForStorage(node) ==
    {deflateCopy(node)} \cup
        IF CompositeIs(node)
        THEN UNION {deflateForStorage(nodeChildren[node][i]) : i \in 1..Len(nodeChildren[node])}
        ELSE {}

\* The stored object with the given id.
objectWithId(objs, id) == CHOOSE o \in objs : o.id = id

\* The head of inflateFromStorage: the selected flag is cleared and the parent,
\* if one is given, is set.
inflateObject(o, parentNode) ==
    LET cleared == IF o.selected THEN [o EXCEPT !.selected = FALSE] ELSE o
    IN  IF parentNode # Undefined THEN [cleared EXCEPT !.parent = parentNode] ELSE cleared

\* TreeWidget.inflateFromStorage: the stored objects of the node and of its
\* descendants, inflated in place.
RECURSIVE inflateFromStorage(_, _, _)
inflateFromStorage(objs, node, parentNode) ==
    LET o == objectWithId(objs, node)
    IN  {inflateObject(o, parentNode)} \cup
            UNION {inflateFromStorage(objs, o.children[i], node) : i \in 1..Len(o.children)}

\* The roots the model is given: none, the top of the graph, or a node below it
\* (which has a parent).
StoreRoots == {Undefined, "root", "A", "X"}

\* The parent properties the node objects start with: every node points to its
\* parent, or no node has a parent property.
ParentLayouts == {parentOf, [n \in GraphNodes |-> Undefined]}

\* The nodes the tree knows when its root is node.
nodesBelow(node) == IF node = Undefined THEN {} ELSE Subtree(node)

\* The history of a call of the widget.
StoreCall(op) ==
    [op |-> op, node |-> Undefined, type |-> Undefined,
     before |-> selectedNodes, flags |-> selected]

InitStore ==
    /\ root \in StoreRoots
    /\ treeNodes = nodesBelow(root)
    /\ nodeParent \in ParentLayouts
    /\ nodeChildren = childrenOf
    /\ selected \in [SelectableNodes -> BOOLEAN]
    /\ expanded \in [ExpandableNodes -> BOOLEAN]
    /\ stored = NoState
    /\ reveal = NoReveal
    /\ selectedNodes = <<>>
    /\ fired = <<>>
    /\ recency = <<>>
    /\ call = [op |-> "init", node |-> Undefined, type |-> Undefined,
               before |-> <<>>,
               flags |-> [n \in SelectableNodes |-> FALSE]]
    /\ navigation = <<>>
    /\ opened = <<>>
    /\ result = FALSE
    /\ hidden = {}
    /\ multiSelect = "false"
    /\ isOSX = FALSE
    /\ pre = [exp |-> [n \in ExpandableNodes |-> FALSE], root |-> "root",
              nav |-> <<>>, nodes |-> Subtree("root")]

\* The properties of the live node objects.
LiveTree ==
    [parent |-> nodeParent, children |-> nodeChildren,
     selected |-> selected, expanded |-> expanded]

\* TreeWidget.storeState; `from` and `live` are history: the parent the root had
\* and the live node objects when storeState was called.
StoreState ==
    /\ stored' = IF root # Undefined
                 THEN [root |-> root, objs |-> deflateForStorage(root),
                       from |-> nodeParent[root], live |-> LiveTree]
                 ELSE [NoState EXCEPT !.live = LiveTree]
    /\ call' = StoreCall("storeState")
    /\ UNCHANGED <<treeNodes, selectedNodes, selected, fired, recency, modelVars, nodeParent,
                   nodeChildren, reveal>>

\* TreeWidget.restoreState: the inflated objects become the tree of the model.
RestoreState ==
    /\ call.op = "storeState"
    /\ call' = StoreCall("restoreState")
    /\ IF stored.root # Undefined
       THEN LET objs == inflateFromStorage(stored.objs, stored.root, Undefined)
                ids  == {o.id : o \in objs}
            IN  /\ root' = stored.root
                /\ treeNodes' = ids
                /\ nodeParent' = [n \in GraphNodes |->
                        IF n \in ids THEN objectWithId(objs, n).parent ELSE nodeParent[n]]
                /\ nodeChildren' = [n \in GraphNodes |->
                        IF n \in ids THEN objectWithId(objs, n).children ELSE nodeChildren[n]]
                /\ selected' = [n \in SelectableNodes |->
                        IF n \in ids THEN objectWithId(objs, n).selected ELSE selected[n]]
                /\ expanded' = [n \in ExpandableNodes |->
                        IF n \in ids THEN objectWithId(objs, n).expanded ELSE expanded[n]]
       ELSE UNCHANGED <<root, treeNodes, nodeParent, nodeChildren, selected, expanded>>
    /\ UNCHANGED <<selectedNodes, fired, recency, navigation, opened, result,
                   hidden, multiSelect, isOSX, pre, stored, reveal>>

\* TreeModel.root = node, between a store and a restore.
SetRoot(node) ==
    /\ call.op = "storeState"
    /\ node # root
    /\ root' = node
    /\ treeNodes' = nodesBelow(node)
    /\ UNCHANGED <<selectedNodes, selected, fired, recency, call, expanded, navigation,
                   opened, result, hidden, multiSelect, isOSX, pre, storeVars, reveal>>

NextStore ==
    \/ StoreState
    \/ RestoreState
    \/ \E node \in StoreRoots : SetRoot(node)

StoreSpec == InitStore /\ [][NextStore]_vars

----------------------------------------------------------------------------
\* The event handlers of the tree widget (TreeWidget.handleClickEvent and the
\* others): each is a sequence of calls of the tree model.

\* !!value for a prop that is "true", "false" or undefined.
truthy(value) == value = "true"

\* TreeWidget.getSelectionType
getSelectionType(shiftKey, metaKey, ctrlKey) ==
    IF (isOSX /\ metaKey) \/ ctrlKey THEN "MULTI_INDIVIDUAL"
    ELSE IF shiftKey THEN "MULTI_RANGE"
    ELSE "SINGLE"

\* The multiSelect branch of handleClickEvent.
clickMulti(m, node, selectionType) ==
    LET multi  == isMulti(selectionType)
        picked == IF SelectableIs(node)
                  THEN IF multi /\ m.flags[node]
                       THEN unselectNode(m, m.nodes, node)
                       ELSE modelSelectNode(m, node, selectionType)
                  ELSE m
    IN  IF ~multi /\ ExpandableIs(node) THEN toggleNodeExpansion(picked, node) ELSE picked

\* The branch of handleClickEvent for a widget without multiSelect.
clickSingle(m, node) ==
    LET picked == IF SelectableIs(node) THEN modelSelectNode(m, node, Undefined) ELSE m
    IN  IF ExpandableIs(node) THEN toggleNodeExpansion(picked, node) ELSE picked

\* TreeWidget.handleClickEvent
handleClickEvent_alwaysMulti(m, node, selectionType) ==
    IF node # Undefined THEN clickMulti(m, node, selectionType) ELSE m

handleClickEvent(m, node, selectionType) ==
    IF node # Undefined
    THEN IF truthy(multiSelect)
         THEN clickMulti(m, node, selectionType)
         ELSE clickSingle(m, node)
    ELSE m

\* TreeWidget.handleDblClickEvent
handleDblClickEvent(m, node) == openNode(m, node)

\* TreeWidget.handleContextMenuEvent
handleContextMenuEvent_alwaysSingle(m, node) ==
    IF SelectableIs(node) THEN modelSelectNode(m, node, "SINGLE") ELSE m

handleContextMenuEvent(m, node) ==
    IF SelectableIs(node)
    THEN modelSelectNode(m, node,
            IF truthy(multiSelect) /\ m.flags[node] THEN "MULTI_INDIVIDUAL" ELSE "SINGLE")
    ELSE m

\* TreeWidget.handleLeft / handleRight / handleUp / handleDown / handleEnter
handleLeft(m) ==
    LET collapsed == collapseNode(m, Undefined)
    IN  IF ~collapsed.result THEN selectParent(collapsed) ELSE collapsed

handleRight(m) ==
    LET grown == expandNode(m, Undefined)
    IN  IF ~grown.result THEN selectNextNode(grown) ELSE grown

handleUp(m) == selectPrevNode(m)

handleDown(m) == selectNextNode(m)

handleEnter(m) == openNode(m, Undefined)

\* TreeWidget.createRootProps
createRootProps == [depth |-> 0, visible |-> TRUE]

\* TreeWidget.createExpandableChildProps
createExpandableChildProps(parentNode, props) ==
    IF ~props.visible THEN props
    ELSE [depth |-> props.depth + 1, visible |-> expanded[parentNode]]

\* TreeWidget.createChildProps
createChildProps(parentNode, props) ==
    IF ExpandableIs(parentNode) THEN createExpandableChildProps(parentNode, props)
    ELSE props

\* TreeWidget.renderSubTree: the nodes rendered from node down, each with the
\* props renderNode is given; a node with `visible: false` is not rendered, its
\* children are.
RECURSIVE renderSubTree(_, _)
renderSubTree(node, props) ==
    (IF isVisible(node) THEN {[node |-> node, props |-> props]} ELSE {}) \cup
        IF CompositeIs(node)
        THEN UNION {renderSubTree(children(node)[i], createChildProps(node, props)) :
                        i \in 1..Len(children(node))}
        ELSE {}

\* TreeWidget.render / renderTree: what the widget shows in the current state.
render == IF root # Undefined THEN renderSubTree(root, createRootProps) ELSE {}

\* The values of TreeProps.multiSelect.
MultiSelectValues == {"true", "false", Undefined}

\* The selections a widget starts with: at most one node.
InitialSelections == {<<>>} \cup {<<n>> : n \in SelectableNodes}

InitWidget ==
    /\ treeNodes = Subtree("root")
    /\ selectedNodes \in InitialSelections
    /\ selected = [n \in SelectableNodes |-> n \in Range(selectedNodes)]
    /\ fired = <<>>
    /\ recency = <<>>
    /\ call = [op |-> "init", node |-> Undefined, type |-> Undefined,
               before |-> selectedNodes,
               flags |-> [n \in SelectableNodes |-> n \in Range(selectedNodes)]]
    /\ expanded = [n \in ExpandableNodes |-> FALSE]
    /\ root = "root"
    /\ navigation = <<>>
    /\ opened = <<>>
    /\ result = FALSE
    /\ hidden \in SUBSET HideableNodes
    /\ multiSelect \in MultiSelectValues
    /\ isOSX \in BOOLEAN
    /\ pre = [exp |-> [n \in ExpandableNodes |-> FALSE], root |-> "root",
              nav |-> <<>>, nodes |-> Subtree("root")]
    /\ nodeParent = parentOf
    /\ nodeChildren = childrenOf
    /\ stored = NoState
    /\ reveal = NoReveal

\* The nodes an event can come from: a node of the tree, or none.
EventNodes == GraphNodes \cup {Undefined}

ClickEvent(node, shiftKey, metaKey, ctrlKey) ==
    LET selectionType == getSelectionType(shiftKey, metaKey, ctrlKey)
    IN  ModelStep("click", node, selectionType,
                  handleClickEvent(ModelCurrent, node, selectionType))

DblClickEvent(node) ==
    ModelStep("dblclick", node, Undefined, handleDblClickEvent(ModelCurrent, node))

ContextMenuEvent(node) ==
    ModelStep("contextmenu", node, Undefined, handleContextMenuEvent(ModelCurrent, node))

LeftKey == ModelStep("left", Undefined, Undefined, handleLeft(ModelCurrent))

RightKey == ModelStep("right", Undefined, Undefined, handleRight(ModelCurrent))

UpKey == ModelStep("up", Undefined, Undefined, handleUp(ModelCurrent))

DownKey == ModelStep("down", Undefined, Undefined, handleDown(ModelCurrent))

EnterKey == ModelStep("enter", Undefined, Undefined, handleEnter(ModelCurrent))

NextWidget ==
    \/ \E node \in EventNodes, shiftKey \in BOOLEAN, metaKey \in BOOLEAN, ctrlKey \in BOOLEAN :
           ClickEvent(node, shiftKey, metaKey, ctrlKey)
    \/ \E node \in EventNodes : DblClickEvent(node)
    \/ \E node \in EventNodes : ContextMenuEvent(node)
    \/ LeftKey
    \/ RightKey
    \/ UpKey
    \/ DownKey
    \/ EnterKey

WidgetSpec == InitWidget /\ [][NextWidget]_vars

----------------------------------------------------------------------------
\* The file navigator (FileNavigatorModel.revealFile and expandNodePromise). The
\* nodes of its tree are files and folders, a node's id is its uri, and a folder
\* is an expandable node whose children are mounted into the tree when a refresh
\* of the folder arrives. A call of revealFile runs until it has to wait for a
\* refresh; user events are handled while it waits.

\* The uris: the file-system root, a file outside the workspace, the workspace
\* folder with a folder, a sub-folder and a file in it, and two uris under the
\* workspace that do not exist.
Uris == {"/", "/out", "/ws", "/ws/d", "/ws/d/e", "/ws/d/e/f", "/ws/gone", "/ws/gone/f"}

ExistingFiles == Uris \ {"/ws/gone", "/ws/gone/f"}

Directories == {"/", "/ws", "/ws/d", "/ws/d/e"}

WorkspaceRoot == "/ws"

\* URI.parent
uriParent(uri) ==
    CASE uri = "/ws/d"      -> "/ws"
      [] uri = "/ws/d/e"    -> "/ws/d"
      [] uri = "/ws/d/e/f"  -> "/ws/d/e"
      [] uri = "/ws/gone"   -> "/ws"
      [] uri = "/ws/gone/f" -> "/ws/gone"
      [] OTHER              -> "/"

\* URI.path.isRoot
pathIsRoot(uri) == uri = "/"

\* TreeModel.getNode: the node with the id, if it is mounted into the tree.
getNode(f, id) == IF id \in f.nodes THEN id ELSE Undefined

\* IExpandableTreeNode.is for the nodes of a file tree: folders are expandable.
isDirectoryNode(node) == node # Undefined /\ node \in Directories

\* TreeModel.expandNode(node) of a file tree: a collapsed node of the tree is
\* marked expanded at once and a refresh of its children is started.
fileExpandNode(f, node) ==
    IF node \in f.nodes /\ ~f.exp[node]
    THEN [f EXCEPT !.exp[node] = TRUE, !.refreshing = @ \cup {node}]
    ELSE f

\* TreeModel.collapseNode(node) of a file tree.
fileCollapseNode(f, node) ==
    IF node \in f.nodes /\ f.exp[node] THEN [f EXCEPT !.exp[node] = FALSE] ELSE f

\* FileNavigatorModel.expandNodePromise: the frame waits for the refresh of the
\* node, and the expansion is requested.
expandNodePromise(f, frame) ==
    fileExpandNode([f EXCEPT !.stack = Append(@, frame)], frame.node)

\* if (node === undefined) node = this.getNode(navigatorNodeId)
resumeNode(f, frame) ==
    IF frame.node = Undefined THEN getNode(f, frame.uri) ELSE frame.node

\* A call of revealFile returns value: the call on top of the stack, which awaits
\* it, goes on until it returns in turn or waits for an expansion; with no
\* caller left, the promise given to the user settles.
RECURSIVE returnTo(_, _)
returnTo(f, value) ==
    IF f.stack = <<>> THEN [f EXCEPT !.status = "settled", !.value = value]
    ELSE LET top    == f.stack[Len(f.stack)]
             popped == [f EXCEPT !.stack = SubSeq(@, 1, Len(@) - 1)]
         IN  IF value # Undefined
             THEN LET node == resumeNode(f, top)
                  IN  IF isDirectoryNode(node) /\ ~f.exp[node]
                      THEN expandNodePromise(popped,
                               [uri |-> top.uri, node |-> node, pc |-> "expand"])
                      ELSE returnTo(popped, node)
             ELSE returnTo(popped, Undefined)

\* FileNavigatorModel.revealFile, up to the point where it waits or returns.
RECURSIVE revealFile(_, _)
revealFile(f, targetFileUri) ==
    LET node == getNode(f, targetFileUri)
    IN  IF f.root = node
        THEN IF isDirectoryNode(node)
             THEN IF ~f.exp[node]
                  THEN expandNodePromise(f,
                           [uri |-> targetFileUri, node |-> node, pc |-> "expandRoot"])
                  ELSE returnTo(f, node)
             ELSE returnTo(f, Undefined)
        ELSE IF pathIsRoot(targetFileUri) THEN returnTo(f, Undefined)
        ELSE revealFile(
                 [f EXCEPT !.stack = Append(@, [uri |-> targetFileUri, node |-> node,
                                                 pc |-> "parent"])],
                 uriParent(targetFileUri))

\* The refresh of node arrives: its children are mounted, the refresh of its
\* expanded children is started, and onNodeRefreshed fires; the listener of
\* expandNodePromise resolves if the refreshed node is its node and is expanded.
nodeRefreshed(f, node) ==
    LET found   == IF node \in f.nodes
                   THEN {c \in ExistingFiles : c # node /\ uriParent(c) = node}
                   ELSE {}
        mounted == [f EXCEPT !.nodes = @ \cup found,
                             !.refreshing = (@ \ {node}) \cup
                                 {c \in found : isDirectoryNode(c) /\ f.exp[c]}]
        waiting == mounted.stack # <<>> /\
                   mounted.stack[Len(mounted.stack)].pc \in {"expandRoot", "expand"}
    IN  IF waiting /\ mounted.stack[Len(mounted.stack)].node = node /\ mounted.exp[node]
        THEN returnTo([mounted EXCEPT !.stack = SubSeq(@, 1, Len(@) - 1)], node)
        ELSE mounted

\* The state a step of the navigator starts from.
RevealCurrent ==
    [status |-> reveal.status, target |-> reveal.target, stack |-> reveal.stack,
     refreshing |-> reveal.refreshing, value |-> reveal.value,
     exp |-> expanded, nodes |-> treeNodes, root |-> root]

\* The state a step of the navigator ends in.
RevealStep(f) ==
    /\ reveal' = [status |-> f.status, target |-> f.target, stack |-> f.stack,
                  refreshing |-> f.refreshing, value |-> f.value]
    /\ expanded' = f.exp
    /\ treeNodes' = f.nodes
    /\ UNCHANGED <<selectedNodes, selected, fired, recency, call, root, navigation,
                   opened, result, hidden, multiSelect, isOSX, pre, storeVars>>

\* A navigator whose root, if there is a workspace, has just been set: the root
\* is mounted and collapsed, and its first refresh is under way.
InitReveal ==
    /\ root \in {WorkspaceRoot, Undefined}
    /\ treeNodes = IF root # Undefined THEN {root} ELSE {}
    /\ expanded = [d \in Directories |-> FALSE]
    /\ reveal = [NoReveal EXCEPT !.refreshing = IF root # Undefined THEN {root} ELSE {}]
    /\ selectedNodes = <<>>
    /\ selected = [n \in SelectableNodes |-> FALSE]
    /\ fired = <<>>
    /\ recency = <<>>
    /\ call = [op |-> "init", node |-> Undefined, type |-> Undefined,
               before |-> <<>>,
               flags |-> [n \in SelectableNodes |-> FALSE]]
    /\ navigation = <<>>
    /\ opened = <<>>
    /\ result = FALSE
    /\ hidden = {}
    /\ multiSelect = "false"
    /\ isOSX = FALSE
    /\ pre = [exp |-> [n \in ExpandableNodes |-> FALSE], root |-> "root",
              nav |-> <<>>, nodes |-> Subtree("root")]
    /\ nodeParent = parentOf
    /\ nodeChildren = childrenOf
    /\ stored = NoState

\* revealFile(uri) is called while no other call is pending.
RevealFile(uri) ==
    /\ reveal.status # "pending"
    /\ RevealStep(revealFile([RevealCurrent EXCEPT !.status = "pending", !.target = uri,
                                                    !.value = Undefined], uri))

\* The refresh of a node arrives.
RefreshArrives(node) ==
    /\ node \in reveal.refreshing
    /\ RevealStep(nodeRefreshed(RevealCurrent, node))

\* Another event callback expands / collapses a folder of the tree.
UserExpands(node) ==
    /\ node \in treeNodes /\ isDirectoryNode(node) /\ ~expanded[node]
    /\ RevealStep(fileExpandNode(RevealCurrent, node))

UserCollapses(node) ==
    /\ node \in treeNodes /\ isDirectoryNode(node) /\ expanded[node]
    /\ RevealStep(fileCollapseNode(RevealCurrent, node))

NextReveal ==
    \/ \E uri \in Uris : RevealFile(uri)
    \/ \E node \in Directories : RefreshArrives(node)
    \/ \E node \in Directories : UserExpands(node)
    \/ \E node \in Directories : UserCollapses(node)

RevealSpec == InitReveal /\ [][NextReveal]_vars

\* Every refresh that was started arrives; the user need not do anything.
FairRevealSpec == RevealSpec /\ \A node \in Directories : WF_vars(RefreshArrives(node))

----------------------------------------------------------------------------
\* The tree of the tests (Node.toTreeNode and MOCK_ROOT). Here the node objects
\* are told apart by reference: the object literal `node` that toTreeNode creates
\* for an id, and the object the spread expression creates from it.

\* The children of the Node literals of MOCK_ROOT.
MockChildren(id) ==
    CASE id = "1"     -> <<"1.1", "1.2", "1.3">>
      [] id = "1.1"   -> <<"1.1.1", "1.1.2">>
      [] id = "1.2"   -> <<"1.2.1", "1.2.2", "1.2.3">>
      [] id = "1.2.1" -> <<"1.2.1.1", "1.2.1.2">>
      [] OTHER        -> <<>>

MockIds ==
    {"1", "1.1", "1.1.1", "1.1.2", "1.2", "1.2.1", "1.2.1.1", "1.2.1.2", "1.2.2", "1.2.3", "1.3"}

\* The Node literals toTreeNode is given: MOCK_ROOT's literal and the literals
\* obtained from it by leaving out nodes with everything below them.
InputTrees ==
    {ids \in SUBSET MockIds :
        /\ "1" \in ids
        /\ \A p \in MockIds : \A i \in 1..Len(MockChildren(p)) :
               MockChildren(p)[i] \in ids => p \in ids}

\* root.children || [] of the literal with the id.
inputChildren(input, id) == SelectSeq(MockChildren(id), LAMBDA k : k \in input)

\* References to node objects; NoRef is the value undefined.
NoRef == [id |-> Undefined, spread |-> FALSE]

\* Node.toTreeNode: the object returned and the objects created by the call.
RECURSIVE toTreeNode(_, _, _)
toTreeNode(input, id, parentRef) ==
    LET node     == [id |-> id, spread |-> FALSE]
        literal  == [ref |-> node, parent |-> parentRef, children |-> <<>>]
        kids     == inputChildren(input, id)
        built    == [i \in 1..Len(kids) |-> toTreeNode(input, kids[i], node)]
        childRefs == [i \in 1..Len(kids) |-> built[i].node]
        below    == UNION {built[i].objects : i \in 1..Len(kids)}
        copy     == [id |-> id, spread |-> TRUE]
    IN  IF Len(childRefs) = 0
        THEN [node |-> node, objects |-> {literal}]
        ELSE [node |-> copy,
              objects |-> below \cup
                          {literal, [ref |-> copy, parent |-> parentRef, children |-> childRefs]}]

InitMock ==
    /\ root = NoRef
    /\ treeNodes = {}
    /\ nodeParent = <<>>
    /\ nodeChildren = <<>>
    /\ expanded = <<>>
    /\ reveal = NoReveal
    /\ selectedNodes = <<>>
    /\ selected = <<>>
    /\ fired = <<>>
    /\ recency = <<>>
    /\ call = [op |-> "init", node |-> Undefined, type |-> Undefined,
               before |-> <<>>,
               flags |-> [n \in SelectableNodes |-> FALSE]]
    /\ navigation = <<>>
    /\ opened = <<>>
    /\ result = FALSE
    /\ hidden = {}
    /\ multiSelect = "false"
    /\ isOSX = FALSE
    /\ pre = [exp |-> [n \in ExpandableNodes |-> FALSE], root |-> "root",
              nav |-> <<>>, nodes |-> Subtree("root")]
    /\ stored = NoState

\* Node.toTreeNode(literal): the objects it creates become the node objects, the
\* object it returns the root.
ToTreeNode(input) ==
    LET made    == toTreeNode(input, "1", NoRef)
        refs    == {o.ref : o \in made.objects}
        object(r) == CHOOSE o \in made.objects : o.ref = r
    IN  /\ root' = made.node
        /\ treeNodes' = refs
        /\ nodeParent' = [r \in refs |-> object(r).parent]
        /\ nodeChildren' = [r \in refs |-> object(r).children]
        /\ selected' = [r \in refs |-> FALSE]
        /\ expanded' = [r \in refs |-> FALSE]
        /\ call' = [op |-> "toTreeNode", node |-> Undefined, type |-> Undefined,
                    before |-> <<>>,
                    flags |-> [n \in SelectableNodes |-> FALSE]]
        /\ UNCHANGED <<selectedNodes, fired, recency, navigation, opened, result, hidden,
                       multiSelect, isOSX, pre, stored, reveal>>

NextMock == \E input \in InputTrees : ToTreeNode(input)

MockSpec == InitMock /\ [][NextMock]_vars

----------------------------------------------------------------------------
\* Vocabulary of the properties.

\* The last call was selectNode / unselectNode.
IsSelect == call.op = "selectNode"

IsUnselect == call.op = "unselectNode"

\* The node of the last call is valid and selectable (the tree is not changed by
\* selectNode and unselectNode, so it is the tree the call saw).
ValidNode == SelectableIs(validateNode(treeNodes, call.node))

\* The last call left the list, the flags and the listeners alone.
NoEffect == selectedNodes = call.before /\ selected = call.flags /\ fired = <<>>

\* s without the node n, order kept.
Without(s, n) == SelectSeq(s, LAMBDA m : m # n)

\* a comes before b in s.
Before(s, a, b) ==
    \E i, j \in 1..Len(s) : i < j /\ s[i] = a /\ s[j] = b

----------------------------------------------------------------------------
C3_MultiIndividualPrepends ==
    (IsSelect /\ ValidNode /\ call.type = "MULTI_INDIVIDUAL"
        /\ call.node \notin Range(call.before)) =>
        selectedNodes = <<call.node>> \o call.before

\* A third node was added to two selected ones.
C3_Witness ==
    /\ IsSelect /\ ValidNode
    /\ call.type = "MULTI_INDIVIDUAL"
    /\ call.node \notin Range(call.before)
    /\ Len(call.before) >= 2

C6_InvalidSelectNoEffect ==
    (IsSelect /\ ~ValidNode) => NoEffect

\* A selectable node the tree no longer knows was given while others are selected.
C6_Witness ==
    /\ IsSelect
    /\ call.node \in SelectableNodes \ treeNodes
    /\ call.node \notin Range(call.before)
    /\ Len(call.before) >= 1

\* C7: unselectNode(undefined) removes all the selections: selectedNodes is empty
\* and every node that was selected has selected = false.
C7_UnselectAll ==
    (IsUnselect /\ call.node = Undefined) =>
        /\ selectedNodes = <<>>
        /\ \A m \in Range(call.before) : ~selected[m]

\* Several nodes were selected when unselectNode(undefined) was called.
C7_Witness ==
    /\ IsUnselect
    /\ call.node = Undefined
    /\ Len(call.before) >= 2

\* C8: unselectNode(n) on a valid selected node n removes exactly n: n leaves the
\* list and gets selected = false, every other selected node stays selected, and
\* the order of the others is unchanged.
C8_UnselectOne ==
    (IsUnselect /\ ValidNode /\ call.node \in Range(call.before)) =>
        /\ call.node \notin Range(selectedNodes)
        /\ ~selected[call.node]
        /\ selectedNodes = Without(call.before, call.node)
        /\ \A m \in SelectableNodes \ {call.node} : selected[m] = call.flags[m]

\* The middle one of three selected nodes was unselected.
C8_Witness ==
    /\ IsUnselect /\ ValidNode
    /\ Len(call.before) >= 3
    /\ call.before[2] = call.node

\* C9: unselectNode(n) with n defined has no effect if n is invalid or not
\* selected: list and flags are unchanged and no event is emitted.
C9_UnselectInvalidNoEffect ==
    (IsUnselect /\ call.node # Undefined
        /\ (~ValidNode \/ call.node \notin Range(call.before))) => NoEffect

\* A selected node the tree no longer knows was given.
C9_Witness ==
    /\ IsUnselect
    /\ call.node \in Range(call.before)
    /\ call.node \notin treeNodes

\* C10: every selectNode or unselectNode call that changes selectedNodes emits
\* exactly one onSelectionChanged event, whose payload is the new selectedNodes.
C10_OneEventPerChange ==
    ((IsSelect \/ IsUnselect) /\ selectedNodes # call.before) =>
        fired = <<selectedNodes>>

\* A SINGLE select replaced a selection of several other nodes.
C10_Witness ==
    /\ IsSelect
    /\ call.type = "SINGLE"
    /\ Len(call.before) >= 2
    /\ call.node \notin Range(call.before)
    /\ selectedNodes # call.before

----------------------------------------------------------------------------
\* C11: a node's selected flag tests whether the node is selected. Starting from
\* an empty selection with all flags false, after any sequence of selectNode and
\* unselectNode calls, selected = true exactly for the elements of selectedNodes.
C11_FlagIffSelected ==
    \A n \in SelectableNodes : selected[n] <=> n \in Range(selectedNodes)

\* One of two selected nodes was unselected while a third node never was selected.
C11_Witness ==
    /\ IsUnselect /\ ValidNode
    /\ Len(call.before) = 2
    /\ Len(selectedNodes) = 1
    /\ Len(recency) = 2

\* The position of n in the rendering order of the whole graph.
TreePos(n) == indexOf(PreOrder("root"), n)

\* The selectable nodes of the tree that lie strictly between a and b in tree order.
BetweenInTree(a, b) ==
    {k \in SelectableNodes \cap treeNodes :
        \/ TreePos(a) < TreePos(k) /\ TreePos(k) < TreePos(b)
        \/ TreePos(b) < TreePos(k) /\ TreePos(k) < TreePos(a)}

\* C12: after selectNode(n, MULTI_RANGE) with m the most recently selected node,
\* every selectable node lying between m and n in tree order is in selectedNodes.
C12_RangeSelected ==
    (IsSelect /\ ValidNode /\ call.type = "MULTI_RANGE" /\ Len(call.before) >= 1) =>
        BetweenInTree(call.before[1], call.node) \subseteq Range(selectedNodes)

----------------------------------------------------------------------------
\* Vocabulary of the tree model's properties.

\* n lies below a collapsed node: an ancestor is expandable and was not expanded
\* when the last call started.
RECURSIVE UnderCollapsed(_)
UnderCollapsed(n) ==
    LET p == parent(n)
    IN  /\ p # Undefined
        /\ \/ ExpandableIs(p) /\ ~pre.exp[p]
           \/ UnderCollapsed(p)

\* The nodes a move of the selection may land on: selectable, visible, and not
\* among the skipped children of a collapsed node.
Landing == {k \in SelectableNodes : SelectableIsVisible(k) /\ ~UnderCollapsed(k)}

\* The node the last call moved from: selectedNodes[0] when the call started.
MovedFrom == firstItem(call.before)

\* The landing nodes after / before the node moved from, in pre-order.
LandingAfter == {k \in Landing : TreePos(k) > TreePos(MovedFrom)}

LandingBefore == {k \in Landing : TreePos(k) < TreePos(MovedFrom)}

\* C13: after selectNextNode() with s = selectedNodes[0], the selection is exactly
\* [m], m being the first visible selectable node after s in depth-first pre-order
\* with the children of collapsed nodes skipped; with no such node, or nothing
\* selected, the selection is unchanged.
C13_NextInPreOrder ==
    call.op = "selectNextNode" =>
        IF MovedFrom # Undefined /\ LandingAfter # {}
        THEN selectedNodes =
                <<CHOOSE k \in LandingAfter : \A j \in LandingAfter : TreePos(k) <= TreePos(j)>>
        ELSE selectedNodes = call.before

\* C14: after selectPrevNode() with s = selectedNodes[0], the selection is exactly
\* [m], m being the nearest visible selectable node before s in the same order;
\* with no such node, or nothing selected, the selection is unchanged.
C14_PrevInPreOrder ==
    call.op = "selectPrevNode" =>
        IF MovedFrom # Undefined /\ LandingBefore # {}
        THEN selectedNodes =
                <<CHOOSE k \in LandingBefore : \A j \in LandingBefore : TreePos(j) <= TreePos(k)>>
        ELSE selectedNodes = call.before

\* The ancestors of n that are selectable and visible.
VisibleAncestors(n) ==
    {a \in SelectableNodes : a # n /\ n \in Subtree(a) /\ SelectableIsVisible(a)}

\* The nearest of them: the one below all the others.
NearestVisibleAncestor(n) ==
    CHOOSE a \in VisibleAncestors(n) : \A b \in VisibleAncestors(n) : a \in Subtree(b)

\* C15 as stated: after selectParent() with exactly one node selected, the
\* selection is exactly [p], p being the nearest ancestor that is selectable and
\* visible; with zero or several nodes selected, or no such ancestor, it is unchanged.
C15_Original ==
    call.op = "selectParent" =>
        IF Len(call.before) = 1 /\ VisibleAncestors(call.before[1]) # {}
        THEN selectedNodes = <<NearestVisibleAncestor(call.before[1])>>
        ELSE selectedNodes = call.before

\* C15, amended: the selection becomes [p] when, in addition, p is a node the tree
\* knows; when the nearest selectable visible ancestor lies outside the tree (above
\* the root navigated to), the selection is unchanged.
C15_ParentSelectedIfKnown ==
    call.op = "selectParent" =>
        IF /\ Len(call.before) = 1
           /\ VisibleAncestors(call.before[1]) # {}
           /\ NearestVisibleAncestor(call.before[1]) \in pre.nodes
        THEN selectedNodes = <<NearestVisibleAncestor(call.before[1])>>
        ELSE selectedNodes = call.before

\* The parent of the selected node is not selectable, and the selection went to
\* the grandparent.
C15_Witness ==
    /\ call.op = "selectParent"
    /\ Len(call.before) = 1
    /\ ~SelectableIs(parent(call.before[1]))
    /\ selectedNodes = <<parent(parent(call.before[1]))>>

\* The node expandNode(), collapseNode() and toggleNodeExpansion() are to act on
\* when called without a node: the first expandable node of selectedNodes.
ExpansionTarget ==
    LET found == {i \in 1..Len(call.before) : ExpandableIs(call.before[i])}
    IN  IF found = {} THEN Undefined
        ELSE call.before[CHOOSE i \in found : \A j \in found : i <= j]

\* What the expansion service does with a node: it expands a collapsed node and
\* collapses an expanded one, if the tree knows the node.
ExpansionAfter(op, n) ==
    IF n \notin pre.nodes THEN pre.exp[n]
    ELSE CASE op = "expandNode" -> TRUE
           [] op = "collapseNode" -> FALSE
           [] OTHER -> ~pre.exp[n]

\* C16: called without a node, expandNode, collapseNode and toggleNodeExpansion
\* act on the first expandable node of selectedNodes and on no other node;
\* expandNode and collapseNode return false and change no expansion state when no
\* selected node is expandable.
C16_FirstExpandableOnly ==
    (call.op \in {"expandNode", "collapseNode", "toggleNodeExpansion"} /\ call.node = Undefined) =>
        /\ \A n \in ExpandableNodes \ {ExpansionTarget} : expanded[n] = pre.exp[n]
        /\ ExpansionTarget # Undefined =>
               expanded[ExpansionTarget] = ExpansionAfter(call.op, ExpansionTarget)
        /\ (ExpansionTarget = Undefined /\ call.op # "toggleNodeExpansion") =>
               ~result /\ expanded = pre.exp

\* Two expandable nodes were selected, both collapsed, and expandNode() expanded
\* the one selected last.
C16_Witness ==
    /\ call.op = "expandNode" /\ call.node = Undefined
    /\ Cardinality({i \in 1..Len(call.before) : ExpandableIs(call.before[i])}) >= 2
    /\ \A i \in 1..Len(call.before) : ExpandableIs(call.before[i]) => ~pre.exp[call.before[i]]
    /\ expanded[ExpansionTarget]
    /\ result

\* navigateTo(n) with a defined n.
IsNavigate == call.op = "navigateTo" /\ call.node # Undefined

\* C17: after navigateTo(n) with a defined n, the root is n, n is expanded if it
\* is expandable, n has been pushed on the navigation history and, if n is
\* selectable, the selection is exactly [n]; navigateTo(undefined) changes nothing.
C17_NavigateTo ==
    /\ IsNavigate =>
           /\ root = call.node
           /\ ExpandableIs(call.node) => expanded[call.node]
           /\ navigation = Append(pre.nav, call.node)
           /\ SelectableIs(call.node) => selectedNodes = <<call.node>>
    /\ (call.op = "navigateTo" /\ call.node = Undefined) =>
           /\ root = pre.root /\ treeNodes = pre.nodes
           /\ expanded = pre.exp /\ navigation = pre.nav
           /\ NoEffect

\* navigateTo went to a collapsed, selectable, expandable node below the root
\* while other nodes were selected.
C17_Witness ==
    /\ IsNavigate
    /\ call.node # pre.root
    /\ ExpandableIs(call.node) /\ ~pre.exp[call.node]
    /\ SelectableIs(call.node)
    /\ Len(call.before) >= 2 /\ call.node \notin Range(call.before)

\* The node openNode is to open: the given node, or else selectedNodes[0].
OpenTarget == IF call.node # Undefined THEN call.node ELSE firstItem(call.before)

C19_RestoredParents ==
    (call.op = "restoreState" /\ stored.root # Undefined) =>
        /\ root = stored.root
        /\ nodeParent[root] = Undefined
        /\ \A c \in treeNodes : CompositeIs(c) =>
               \A i \in 1..Len(children(c)) : nodeParent[children(c)[i]] = c

\* A root that had a parent when it was stored, with composite nodes below it,
\* has been restored.
C19_Witness ==
    /\ call.op = "restoreState"
    /\ stored.from # Undefined
    /\ \E c \in treeNodes \ {root} : CompositeIs(c) /\ children(c) # <<>>

\* C20: in a widget whose multiSelect prop is false or absent, starting from at
\* most one selected node, after any sequence of click, double-click,
\* context-menu and arrow / enter key events, with any modifier keys,
\* selectedNodes never holds more than one node.
C20_AtMostOneSelected ==
    ~truthy(multiSelect) => Len(selectedNodes) <= 1

\* Without multiSelect, a click with the ctrl key went to a second node while
\* another node was selected.
C20_Witness ==
    /\ ~truthy(multiSelect)
    /\ call.op = "click" /\ call.type = "MULTI_INDIVIDUAL"
    /\ Len(call.before) = 1
    /\ SelectableIs(call.node) /\ call.node \notin Range(call.before)
    /\ selectedNodes = <<call.node>>

----------------------------------------------------------------------------
\* C21: a context-menu event on a selectable node keeps the selection if the
\* widget supports multi-selection and the node is already selected: the set of
\* selected nodes is unchanged and the node moves to the front; in every other
\* case the selection becomes exactly [node].
C21_ContextMenuKeepsSelection ==
    (call.op = "contextmenu" /\ SelectableIs(call.node)) =>
        IF truthy(multiSelect) /\ call.node \in Range(call.before)
        THEN /\ Range(selectedNodes) = Range(call.before)
             /\ selectedNodes = <<call.node>> \o Without(call.before, call.node)
        ELSE selectedNodes = <<call.node>>

\* In a multi-select widget, a right click on the last of three selected nodes.
C21_Witness ==
    /\ call.op = "contextmenu"
    /\ truthy(multiSelect)
    /\ Len(call.before) >= 3
    /\ call.before[Len(call.before)] = call.node
    /\ selectedNodes[1] = call.node
    /\ Len(selectedNodes) = Len(call.before)

\* The hierarchical depth of n relative to the root: the number of its ancestors
\* from the root down.
HierarchicalDepth(n) ==
    Cardinality({a \in Subtree(root) : a # n /\ n \in Subtree(a)})

\* C22: every node is rendered with NodeProps.depth equal to its hierarchical
\* depth relative to the root: 0 for the root, 1 for its children, and so on,
\* also below a composite parent that is not expandable and below a collapsed node.
C22_DepthIsHierarchical ==
    \A r \in render : r.props.depth = HierarchicalDepth(r.node)

\* The uri is the workspace root or lies under it.
RECURSIVE InWorkspace(_)
InWorkspace(uri) ==
    /\ root # Undefined
    /\ \/ uri = root
       \/ ~pathIsRoot(uri) /\ InWorkspace(uriParent(uri))

\* C23: revealFile(uri) returns the tree node whose id is the uri when the uri is
\* the workspace root or lies under it and exists, and undefined when the uri is
\* not inside the workspace root folder or points to a file that does not exist.
C23_RevealReturnsNode ==
    reveal.status = "settled" =>
        reveal.value = IF InWorkspace(reveal.target) /\ reveal.target \in ExistingFiles
                       THEN reveal.target
                       ELSE Undefined

\* Some ancestor of the node is collapsed now.
RECURSIVE HasCollapsedAncestor(_)
HasCollapsedAncestor(n) ==
    LET p == parent(n)
    IN  /\ p # Undefined
        /\ isCollapsed(ModelCurrent, p) \/ HasCollapsedAncestor(p)

\* The nodes the calls of next() return, one after the other, on an iterator
\* constructed on the node with pruneCollapsed = true.
RECURSIVE ReturnedByNext(_, _)
ReturnedByNext(n, forward) ==
    LET nextNode == IF forward THEN ForwardDoNext(ModelCurrent, n, TRUE)
                    ELSE BackwardDoNext(ModelCurrent, n, TRUE)
    IN  IF nextNode = Undefined THEN {} ELSE {nextNode} \cup ReturnedByNext(nextNode, forward)

\* C24: with pruneCollapsed = true, an iterator started from a node that has no
\* collapsed ancestor never returns a node that has a collapsed ancestor, forward
\* or backward.
C24_PrunedIteratorsSkipCollapsed ==
    \A n \in Subtree("root") : \A forward \in BOOLEAN :
        ~HasCollapsedAncestor(n) =>
            \A k \in ReturnedByNext(n, forward) : ~HasCollapsedAncestor(k)

\* The selection was moved while a node with children is collapsed under an
\* expanded root: the forward iterator passes the node without entering it.
C24_Witness ==
    /\ call.op \in {"selectNextNode", "selectPrevNode"}
    /\ expanded["root"] /\ ~expanded["A"] /\ children("A") # <<>>
    /\ "A" \in ReturnedByNext("root", TRUE)
    /\ ReturnedByNext("root", TRUE) \cap Subtree("A") = {"A"}
    /\ "root" \in ReturnedByNext("A", FALSE)

\* The nodes whose expansion state the last call changed: the nodes an
\* expansion-changed event reported.
ExpansionChanged == {c \in ExpandableNodes : expanded[c] # pre.exp[c]}

\* Some node selected when the call started lies below c.
SelectedBelow(c) == \E s \in Range(call.before) : isAncestor(c, s)

\* C25: when an expansion-changed event reports a node c that is now collapsed,
\* visible and selectable, and some selected node has c as an ancestor, the
\* selection becomes exactly [c]; when c is expanded, or no selected node is a
\* descendant of c, the selection is unchanged.
C25_CollapseSelectsNode ==
    call.op \in {"expandNode", "collapseNode", "toggleNodeExpansion", "openNode"} =>
        \A c \in ExpansionChanged :
            /\ (~expanded[c] /\ SelectableIsVisible(c) /\ SelectedBelow(c)) =>
                   selectedNodes = <<c>>
            /\ (expanded[c] \/ ~SelectedBelow(c)) => selectedNodes = call.before

\* A node was collapsed while a node below it and nothing else was selected.
C25_Witness ==
    /\ call.op = "collapseNode"
    /\ ExpansionChanged = {"A"} /\ ~expanded["A"]
    /\ call.before # <<>> /\ \A s \in Range(call.before) : isAncestor("A", s)
    /\ selectedNodes = <<"A">>

\* The ids of the node and of the nodes below it, by the given children lists.
RECURSIVE IdsBelow(_, _)
IdsBelow(childLists, n) ==
    {n} \cup UNION {IdsBelow(childLists, childLists[n][i]) : i \in 1..Len(childLists[n])}

RECURSIVE ReturnedBelow(_)
ReturnedBelow(c) ==
    {c} \cup UNION {ReturnedBelow(nodeChildren[c][i]) : i \in 1..Len(nodeChildren[c])}

\* C27: in the tree built by Node.toTreeNode, for every node c returned with a
\* non-empty children list and every child k in it, k.parent is the very node
\* object c whose children list contains k.
C27_ChildrenPointToParent ==
    call.op = "toTreeNode" =>
        \A c \in ReturnedBelow(root) :
            \A i \in 1..Len(nodeChildren[c]) : nodeParent[nodeChildren[c][i]] = c

\* C28: every call of revealFile eventually settles, with a node or undefined,
\* also when the node is collapsed again by another event callback before its
\* refresh arrives.
C28_RevealSettles == (reveal.status = "pending") ~> (reveal.status = "settled")

====
